---- MODULE Spec2Model ----
(***************************************************************************)
(* Model of testvalidator.py: APITestValidator.test_endpoint and           *)
(* APITestValidator.run_tests.  One run of run_tests over a list of        *)
(* endpoint dictionaries; the HTTP server and the network are the          *)
(* environment and answer every request nondeterministically.              *)
(***************************************************************************)
EXTENDS Integers, Sequences, FiniteSets, TLC

VARIABLES endpoints, pc, i, response, result, results, sent, output, exc, j

vars == <<endpoints, pc, i, response, result, results, sent, output, exc, j>>

(* ------------------------------ bounds --------------------------------- *)
MaxEndpoints == 2
MaxKeys == 2

(* ------------------------------ domains -------------------------------- *)
base_url == "https://jsonplaceholder.typicode.com"

Paths == {"/users", "/posts"}
SupportedMethods == {"GET", "POST", "PUT", "DELETE"}
Methods == SupportedMethods \cup {"PATCH"}
StatusCodes == {200, 404}
Keys == {"id", "name"}
Payloads == {"None", "title"}
ContentTypes == {"application/json", "application/json; charset=utf-8", "text/html"}
TransportErrors == {"ConnectionError", "Timeout"}

SeqsUpTo(S, n) == UNION {[1..k -> S] : k \in 0..n}

KeyLists == SeqsUpTo(Keys, MaxKeys)

\* A response body by what json() and the "in" operator make of it:
\*   object    - a JSON object; members are its top-level keys
\*   array     - a JSON array; members are its string elements
\*   string    - a JSON string; members are the keys occurring in it as substrings
\*   scalar    - a JSON number, boolean or null ("in" raises TypeError)
\*   malformed - not JSON (json() raises JSONDecodeError)
Bodies ==
    [kind : {"object", "array", "string"}, members : SUBSET Keys]
        \cup [kind : {"scalar", "malformed"}, members : {{}}]

Responses == [status_code : StatusCodes, content_type : ContentTypes, body : Bodies]

NoResponse == [status_code |-> 0, content_type |-> "", body |-> [kind |-> "none", members |-> {}]]
NoResult == [result |-> "NONE"]

\* Endpoint dictionaries with every key given, and dictionaries that leave
\* keys to the defaults of run_tests.
Descriptors ==
    [endpoint : Paths, expected_status : StatusCodes, expected_keys : KeyLists,
     method : Methods, payload : Payloads]

DefaultingDescriptors ==
    {[endpoint |-> p] : p \in Paths}
        \cup {[endpoint |-> "/posts", method |-> m] : m \in {"POST", "PATCH"}}
        \cup {[endpoint |-> "/users", expected_keys |-> <<"id">>]}

EndpointLists ==
    {<<d>> : d \in Descriptors} \cup SeqsUpTo(DefaultingDescriptors, MaxEndpoints)

(* --------------------------- test_endpoint ----------------------------- *)
\* dict.get(key, default)
Get(ep, key, default) == IF key \in DOMAIN ep THEN ep[key] ELSE default

\* The arguments run_tests passes to test_endpoint for one dictionary.
CallArgs(ep) ==
    [endpoint |-> ep.endpoint,
     expected_status |-> Get(ep, "expected_status", 200),
     expected_keys |-> Get(ep, "expected_keys", <<>>),
     method |-> Get(ep, "method", "GET"),
     payload |-> Get(ep, "payload", "None")]

\* The request one branch of the method dispatch sends.
Request(args) ==
    [method |-> args.method,
     url |-> base_url \o args.endpoint,
     json |-> IF args.method \in {"POST", "PUT"} THEN args.payload ELSE "None"]

\* A handler that catches transport failures only.
IsRequestExceptionTransportOnly(e) == e \in TransportErrors

\* The exceptions "except requests.RequestException" catches.
IsRequestException(e) == e \in TransportErrors \cup {"JSONDecodeError"}

\* An ERROR dictionary without the error text.
ErrorResultNoText(args, e) ==
    [endpoint |-> args.endpoint, method |-> args.method, result |-> "ERROR"]

ErrorResult(args, e) ==
    [endpoint |-> args.endpoint, method |-> args.method, error |-> e, result |-> "ERROR"]

\* A status check that ignores the expected status.
StatusCheckAny(status_code, expected_status) == status_code \in StatusCodes

StatusCheck(status_code, expected_status) == status_code = expected_status

\* The guard of the key check: expected_keys truthy and the header equal to
\* "application/json".
KeysChecked(expected_keys, resp) ==
    expected_keys # <<>> /\ resp.content_type = "application/json"

\* Python's "key in json_data" for the bodies on which it does not raise.
Contains(body, key) == key \in body.members

ContentCheck(expected_keys, body) ==
    \A n \in 1..Len(expected_keys) : Contains(body, expected_keys[n])

\* The absent keys collected from the last expected key to the first.
MissingKeysReversed(expected_keys, body) ==
    LET absent(key) == ~Contains(body, key)
        m == SelectSeq(expected_keys, absent)
    IN  [n \in 1..Len(m) |-> m[Len(m) + 1 - n]]

MissingKeys(expected_keys, body) ==
    LET absent(key) == ~Contains(body, key) IN SelectSeq(expected_keys, absent)

\* A verdict that passes when either check passes.
VerdictEither(status_check, content_check) ==
    IF status_check \/ content_check THEN "PASS" ELSE "FAIL"

Verdict(status_check, content_check) ==
    IF status_check /\ content_check THEN "PASS" ELSE "FAIL"

\* The result dictionary of a call that reaches "return result".
CompileResult(args, resp) ==
    LET checked == KeysChecked(args.expected_keys, resp)
        status_check == StatusCheck(resp.status_code, args.expected_status)
        content_check == IF checked THEN ContentCheck(args.expected_keys, resp.body) ELSE TRUE
        missing_keys == IF checked THEN MissingKeys(args.expected_keys, resp.body) ELSE <<>>
    IN  [endpoint |-> args.endpoint,
         method |-> args.method,
         status |-> resp.status_code,
         expected_status |-> args.expected_status,
         status_check |-> status_check,
         content_check |-> content_check,
         missing_keys |-> missing_keys,
         result |-> Verdict(status_check, content_check)]

\* An exception raised inside the try block: a RequestException becomes the
\* ERROR result that test_endpoint returns, any other exception leaves
\* test_endpoint and run_tests.
Raise(e, args) ==
    IF IsRequestException(e)
    THEN /\ result' = ErrorResult(args, e)
         /\ pc' = "append"
         /\ exc' = exc
    ELSE /\ exc' = e
         /\ pc' = "raised"
         /\ result' = result

(* ------------------------------ run_tests ------------------------------ *)
Init ==
    /\ endpoints \in EndpointLists
    /\ pc = "call"
    /\ i = 1
    /\ response = NoResponse
    /\ result = NoResult
    /\ results = <<>>
    /\ sent = <<>>
    /\ output = <<>>
    /\ exc = "none"
    /\ j = 1

Args == CallArgs(endpoints[i])

\* The request is sent and a response comes back.
SendRequest ==
    /\ pc = "call"
    /\ i <= Len(endpoints)
    /\ Args.method \in SupportedMethods
    /\ \E resp \in Responses :
        /\ sent' = Append(sent, [index |-> i] @@ Request(Args))
        /\ response' = resp
        /\ pc' = "check"
    /\ UNCHANGED <<endpoints, i, result, results, output, exc, j>>

\* The request is sent and fails in transport: no response.
RequestFails ==
    /\ pc = "call"
    /\ i <= Len(endpoints)
    /\ Args.method \in SupportedMethods
    /\ \E e \in TransportErrors :
        /\ sent' = Append(sent, [index |-> i] @@ Request(Args))
        /\ Raise(e, Args)
    /\ UNCHANGED <<endpoints, i, response, results, output, j>>

\* The else branch of the method dispatch.
UnsupportedMethod ==
    /\ pc = "call"
    /\ i <= Len(endpoints)
    /\ Args.method \notin SupportedMethods
    /\ Raise("ValueError", Args)
    /\ UNCHANGED <<endpoints, i, response, results, sent, output, j>>

\* The checks of the response, up to the return of test_endpoint.
CheckResponse ==
    /\ pc = "check"
    /\ LET checked == KeysChecked(Args.expected_keys, response) IN
         IF checked /\ response.body.kind = "malformed"
         THEN Raise("JSONDecodeError", Args)
         ELSE IF checked /\ response.body.kind = "scalar"
         THEN Raise("TypeError", Args)
         ELSE /\ result' = CompileResult(Args, response)
              /\ pc' = "append"
              /\ exc' = exc
    /\ UNCHANGED <<endpoints, i, response, results, sent, output, j>>

\* results.append(result), and the loop goes to the next dictionary.
AppendResult ==
    /\ pc = "append"
    /\ results' = Append(results, result)
    /\ i' = i + 1
    /\ response' = NoResponse
    /\ result' = NoResult
    /\ pc' = "call"
    /\ UNCHANGED <<endpoints, sent, output, exc, j>>

\* The loop is over: the heading of the summary.
PrintSummary ==
    /\ pc = "call"
    /\ i > Len(endpoints)
    /\ output' = Append(output, <<"Test Summary:">>)
    /\ j' = 1
    /\ pc' = "print"
    /\ UNCHANGED <<endpoints, i, response, result, results, sent, exc>>

\* The keys of a result dictionary the summary loop subscripts.
FieldsRead(r) ==
    {"endpoint", "method", "result"}
        \cup (IF "result" \in DOMAIN r /\ r.result = "FAIL"
              THEN {"status_check", "content_check", "missing_keys"} ELSE {})
        \cup (IF "result" \in DOMAIN r /\ r.result = "ERROR"
              THEN {"error"} ELSE {})

PassFail(b) == IF b THEN "Pass" ELSE "Fail"

\* The lines the summary loop prints for one result.
Lines(r) ==
    <<<<"Endpoint", r.endpoint, r.method, r.result>>>>
        \o (IF r.result = "FAIL"
            THEN <<<<"Status Check", PassFail(r.status_check)>>,
                   <<"Content Check", PassFail(r.content_check)>>>>
                    \o (IF r.missing_keys # <<>>
                        THEN <<<<"Missing Keys", r.missing_keys>>>> ELSE <<>>)
            ELSE IF r.result = "ERROR"
            THEN <<<<"Error", r.error>>>>
            ELSE <<>>)

PrintResult ==
    /\ pc = "print"
    /\ j <= Len(results)
    /\ IF FieldsRead(results[j]) \subseteq DOMAIN results[j]
       THEN /\ output' = output \o Lines(results[j])
            /\ j' = j + 1
            /\ pc' = pc
            /\ exc' = exc
       ELSE /\ exc' = "KeyError"
            /\ pc' = "raised"
            /\ UNCHANGED <<output, j>>
    /\ UNCHANGED <<endpoints, i, response, result, results, sent>>

Finish ==
    /\ pc = "print"
    /\ j > Len(results)
    /\ pc' = "done"
    /\ UNCHANGED <<endpoints, i, response, result, results, sent, output, exc, j>>

Next ==
    \/ SendRequest
    \/ RequestFails
    \/ UnsupportedMethod
    \/ CheckResponse
    \/ AppendResult
    \/ PrintSummary
    \/ PrintResult
    \/ Finish

Spec == Init /\ [][Next]_vars

TypeOK ==
    /\ pc \in {"call", "check", "append", "print", "done", "raised"}
    /\ i \in 1..(Len(endpoints) + 1)
    /\ Len(results) <= Len(endpoints)

(* ------------------------------ properties ----------------------------- *)
ArgsAt(k) == CallArgs(endpoints[k])

\* The response came with a body that json() cannot parse, declared as
\* "application/json", for a call that expects keys.
JSONUnparseable(args, resp) ==
    /\ resp # NoResponse
    /\ resp.content_type = "application/json"
    /\ args.expected_keys # <<>>
    /\ resp.body.kind = "malformed"

\* A Content-Type value that denotes JSON, with or without parameters.
DenotesJSON(content_type) ==
    content_type \in {"application/json", "application/json; charset=utf-8"}

\* The top-level keys of a parsed body.
TopLevelKeys(body) == IF body.kind = "object" THEN body.members ELSE {}

RECURSIVE IsSubsequence(_, _)
IsSubsequence(s, t) ==
    IF s = <<>> THEN TRUE
    ELSE IF t = <<>> THEN FALSE
    ELSE IF Head(s) = Head(t) THEN IsSubsequence(Tail(s), Tail(t))
    ELSE IsSubsequence(s, Tail(t))

RunOver == pc \in {"done", "raised"}

\* C1 (as stated): a returned result is ERROR iff no response was obtained,
\* and with a response it is PASS iff both checks are true, FAIL otherwise.
C1_ErrorIffNoResponse ==
    pc = "append" =>
        /\ (result.result = "ERROR") <=> (response = NoResponse)
        /\ response # NoResponse =>
            /\ "status_check" \in DOMAIN result
            /\ result.result =
                 (IF result.status_check /\ result.content_check THEN "PASS" ELSE "FAIL")

\* C1 (amended): a returned result is ERROR iff no response was obtained or
\* the response's declared-JSON body could not be parsed for the key check;
\* every other returned result is PASS iff both checks are true, else FAIL.
C1_ErrorIffRequestException ==
    pc = "append" =>
        /\ (result.result = "ERROR")
               <=> (response = NoResponse \/ JSONUnparseable(Args, response))
        /\ result.result # "ERROR" =>
            /\ "status_check" \in DOMAIN result
            /\ result.result =
                 (IF result.status_check /\ result.content_check THEN "PASS" ELSE "FAIL")

C1_Witness ==
    /\ pc = "append"
    /\ response # NoResponse
    /\ result.result = "ERROR"

\* C2: a dictionary with an unsupported method causes no network call and
\* ends as an ERROR result recorded for that endpoint, the run going on.
C2_UnsupportedMethodIsLocalError ==
    \A k \in 1..Len(endpoints) :
        (ArgsAt(k).method \notin SupportedMethods /\ (i > k \/ (i = k /\ RunOver))) =>
            /\ \A n \in 1..Len(sent) : sent[n].index # k
            /\ pc # "raised"
            /\ Len(results) >= k
            /\ results[k].result = "ERROR"

\* C3: no failure met while testing an endpoint leaves the loop of
\* run_tests, so every later endpoint is still tested.
C3_NoFailureLeavesTheLoop ==
    ~(pc = "raised" /\ i <= Len(endpoints))

C5_ContentCheckOnEveryJSONType ==
    (pc = "append" /\ response # NoResponse /\ "content_check" \in DOMAIN result) =>
        LET expected_keys == Args.expected_keys
            top == TopLevelKeys(response.body)
            absent(key) == key \notin top
        IN  IF DenotesJSON(response.content_type) /\ expected_keys # <<>>
            THEN /\ result.content_check
                     <=> (\A n \in 1..Len(expected_keys) : expected_keys[n] \in top)
                 /\ result.missing_keys = SelectSeq(expected_keys, absent)
            ELSE /\ result.content_check
                 /\ result.missing_keys = <<>>

C7_OneResultPerDescriptor ==
    RunOver =>
        LET isSummary(line) == line[1] = "Endpoint"
            summary == SelectSeq(output, isSummary)
        IN  /\ Len(results) = Len(endpoints)
            /\ \A k \in 1..Len(endpoints) :
                /\ results[k].endpoint = endpoints[k].endpoint
                /\ results[k].method = ArgsAt(k).method
            /\ Len(summary) = Len(endpoints)
            /\ \A k \in 1..Len(endpoints) :
                /\ summary[k][2] = endpoints[k].endpoint
                /\ summary[k][3] = ArgsAt(k).method

\* C8: in every result with a response, missing_keys is an order-preserving
\* subsequence of the expected keys, is non-empty only when content_check is
\* false and keys are expected, and is empty exactly when content_check holds.
C8_MissingKeysSubsequence ==
    LET ok(r, expected_keys) ==
            "missing_keys" \in DOMAIN r =>
                /\ IsSubsequence(r.missing_keys, expected_keys)
                /\ r.missing_keys # <<>> => (~r.content_check /\ expected_keys # <<>>)
                /\ r.content_check <=> (r.missing_keys = <<>>)
    IN  /\ \A k \in 1..Len(results) : ok(results[k], ArgsAt(k).expected_keys)
        /\ pc = "append" => ok(result, Args.expected_keys)

C8_Witness ==
    /\ pc = "append"
    /\ "missing_keys" \in DOMAIN result
    /\ Len(Args.expected_keys) = 2
    /\ Args.expected_keys[1] # Args.expected_keys[2]
    /\ result.missing_keys = Args.expected_keys

\* C9: one request per dictionary with a supported method, in input order,
\* none sent before the previous dictionary's result is appended, and no
\* summary output before the last result is collected.
C9_OneRequestPerSupportedDescriptor ==
    /\ \A a, b \in 1..Len(sent) : a < b => sent[a].index < sent[b].index
    /\ \A n \in 1..Len(sent) : Len(results) >= sent[n].index - 1
    /\ output # <<>> => Len(results) = Len(endpoints)
    /\ RunOver =>
        \A k \in 1..Len(endpoints) :
            ArgsAt(k).method \in SupportedMethods =>
                Cardinality({n \in 1..Len(sent) : sent[n].index = k}) = 1

\* C10: PASS and FAIL results carry the check fields, ERROR results carry
\* endpoint, method, error and result only, the summary reads the check
\* fields of FAIL results only and the error of ERROR results only, and no
\* read of the summary misses its field.
C10_ReporterReadsExistingFields ==
    LET shaped(r) ==
            /\ r.result \in {"PASS", "FAIL", "ERROR"}
            /\ r.result \in {"PASS", "FAIL"} =>
                DOMAIN r = {"endpoint", "method", "status", "expected_status",
                            "status_check", "content_check", "missing_keys", "result"}
            /\ r.result = "ERROR" =>
                DOMAIN r = {"endpoint", "method", "error", "result"}
            /\ r.result # "FAIL" =>
                FieldsRead(r) \cap {"status_check", "content_check", "missing_keys"} = {}
            /\ r.result # "ERROR" => "error" \notin FieldsRead(r)
            /\ FieldsRead(r) \subseteq DOMAIN r
    IN  /\ \A k \in 1..Len(results) : shaped(results[k])
        /\ pc = "append" => shaped(result)
        /\ exc # "KeyError"

C10_Witness ==
    /\ pc = "done"
    /\ \E k \in 1..Len(results) : results[k].result = "ERROR"
    /\ \E k \in 1..Len(results) : results[k].result = "FAIL"
    /\ \E n \in 1..Len(output) : output[n][1] = "Error"
    /\ \E n \in 1..Len(output) : output[n][1] = "Status Check"
====
